---- MODULE Spec2Model ----
(***************************************************************************)
(* Model of .github/workflows/wiki_links.sh: the bash function             *)
(* collect_files walks docs/wiki and runs                                  *)
(*     sed -i "s/(.*\/\(.*\)\.md/(\1/g"                                    *)
(* on every regular file whose path matches *.md.                          *)
(*                                                                         *)
(* Text is modelled character by character: a line is a sequence of        *)
(* one-character strings, a file is a sequence of lines, a file name is a  *)
(* sequence of characters.                                                 *)
(*                                                                         *)
(* Two specifications:                                                     *)
(*   SpecLine  the sed substitution applied to one line, run after run;    *)
(*   Spec      one execution of the script over a directory tree.          *)
(***************************************************************************)
EXTENDS Integers, Sequences, FiniteSets

VARIABLES
    \* ---- SpecLine: one line of a markdown file under repeated sed -i ----
    lineIn,      \* the line as it was before the first run
    linePrev,    \* the line as it was before the latest run
    lineOut,     \* the line as it is now
    nsub,        \* substitutions the latest run made on the line
    runs,        \* number of runs so far
    \* ---- Spec: the file system under docs/wiki ----
    rootExists,  \* whether docs/wiki is an accessible directory
    parent,      \* node -> containing directory (0 is docs/wiki itself)
    name,        \* node -> file name
    kind,        \* node -> "dir" | "file" | "other" (fifo, socket, ...) | "absent"
    readable,    \* node -> whether sed can read and replace the file
    content,     \* node -> file content (sequence of lines)
    content0,    \* content before the run started
    \* ---- Spec: the bash process ----
    pc,          \* "start" | "loop" | "sed" | "echoDone" | "exit" ("idle": no process)
    stack,       \* call stack of collect_files: the words left in each for loop
    stdout,      \* lines written to standard output, in order
    status,      \* exit status of the process (-1 while it runs)
    visits,      \* node -> times the for loop bound "file" to it
    overwritten, \* files sed -i has replaced
    sedFailed    \* files on which sed returned an error

lineVars == <<lineIn, linePrev, lineOut, nsub, runs>>
fsVars   == <<rootExists, parent, name, kind, readable, content, content0>>
shVars   == <<pc, stack, stdout, status, visits, overwritten, sedFailed>>
vars     == <<lineVars, fsVars, shVars>>

----------------------------------------------------------------------------
(* Bounds *)

\* lines of SpecLine are concatenations of at most MaxTokens tokens
MaxTokens == 6
\* file system entries under docs/wiki
MaxNodes == 3

----------------------------------------------------------------------------
(* Helpers *)

Min(S) == CHOOSE x \in S : \A y \in S : x <= y
Max(S) == CHOOSE x \in S : \A y \in S : x >= y

----------------------------------------------------------------------------
(* sed "s/(.*\/\(.*\)\.md/(\1/g"  (line 14)                                *)

\* "\.md" matches at position k of line l
IsMdAt(l, k) ==
    /\ k >= 1
    /\ k + 2 <= Len(l)
    /\ l[k] = "." /\ l[k + 1] = "m" /\ l[k + 2] = "d"

\* the regular expression "(.*\/\(.*\)\.md" has a match starting at s:
\* a "(" at s, a "/" somewhere after it, a ".md" somewhere after that
HasMatchAt(l, s) ==
    /\ l[s] = "("
    /\ \E j \in (s + 1)..Len(l) :
          /\ l[j] = "/"
          /\ \E k \in (j + 1)..Len(l) : IsMdAt(l, k)

HasMatch(l) == \E s \in 1..Len(l) : HasMatchAt(l, s)

\* a mutation of MatchStart: the last "(" that can start a match
MatchStartLast(l) == Max({s \in 1..Len(l) : HasMatchAt(l, s)})

\* leftmost: the match starts at the first position where one exists
MatchStart(l) == Min({s \in 1..Len(l) : HasMatchAt(l, s)})

\* a mutation of MatchMd: ".*" matching as little as possible
MatchMdShortest(l, s) ==
    Min({k \in (s + 2)..Len(l) :
            IsMdAt(l, k) /\ \E j \in (s + 1)..(k - 1) : l[j] = "/"})

\* longest: of the matches starting at s, the one that ends last; the result is
\* the position of the ".md" that ends it
MatchMd(l, s) ==
    Max({k \in (s + 2)..Len(l) :
            IsMdAt(l, k) /\ \E j \in (s + 1)..(k - 1) : l[j] = "/"})

\* a mutation of MatchSlash: the first ".*" matching as little as possible
MatchSlashFirst(l, s, k) == Min({j \in (s + 1)..(k - 1) : l[j] = "/"})

\* the first ".*" is greedy: the "\/" is the last "/" before the closing ".md"
MatchSlash(l, s, k) == Max({j \in (s + 1)..(k - 1) : l[j] = "/"})

\* the "g" flag: after a substitution the search goes on in the rest of the
\* line, after the end of the match.  Result: the new line and the number of
\* substitutions made.
RECURSIVE SedSubst(_)
SedSubst(l) ==
    IF ~HasMatch(l)
    THEN [text |-> l, n |-> 0]
    ELSE LET s == MatchStart(l)
             k == MatchMd(l, s)
             j == MatchSlash(l, s, k)
             rest == SedSubst(SubSeq(l, k + 3, Len(l)))
         IN  [text |-> SubSeq(l, 1, s - 1) \o <<"(">> \o SubSeq(l, j + 1, k - 1)
                          \o rest.text,
              n    |-> 1 + rest.n]

SedLine(l) == SedSubst(l).text

\* sed works line by line
SedFile(doc) == [i \in 1..Len(doc) |-> SedLine(doc[i])]

----------------------------------------------------------------------------
(* Lines *)

Tokens ==
    { <<"(">>, <<"/">>, <<".", "m", "d">>, <<".", "m">>, <<"d">>, <<"a">> }

RECURSIVE LinesUpTo(_)
LinesUpTo(n) ==
    IF n = 0 THEN { <<>> }
    ELSE LET S == LinesUpTo(n - 1)
         IN  S \cup { l \o t : l \in S, t \in Tokens }

\* See [Guide](../other/Getting-Started.md) for details.
GuideLine ==
    <<"S", "e", "e", " ", "[", "G", "u", "i", "d", "e", "]", "(", ".", ".", "/",
      "o", "t", "h", "e", "r", "/", "G", "e", "t", "t", "i", "n", "g", "-", "S",
      "t", "a", "r", "t", "e", "d", ".", "m", "d", ")", " ", "f", "o", "r", " ",
      "d", "e", "t", "a", "i", "l", "s", ".">>

\* [a](x/a.md) and [b](y/b.md)
TwoLinksLine ==
    <<"[", "a", "]", "(", "x", "/", "a", ".", "m", "d", ")", " ", "a", "n", "d",
      " ", "[", "b", "]", "(", "y", "/", "b", ".", "m", "d", ")">>

\* plain text
PlainLine == <<"p", "l", "a", "i", "n", " ", "t", "e", "x", "t">>

ScenarioLines == { GuideLine, TwoLinksLine, PlainLine }

----------------------------------------------------------------------------
(* SpecLine *)

FsIdle ==
    /\ rootExists = FALSE
    /\ parent = [n \in 1..MaxNodes |-> 0]
    /\ name = [n \in 1..MaxNodes |-> <<>>]
    /\ kind = [n \in 1..MaxNodes |-> "absent"]
    /\ readable = [n \in 1..MaxNodes |-> TRUE]
    /\ content = [n \in 1..MaxNodes |-> <<>>]
    /\ content0 = content

ShIdle ==
    /\ pc = "idle"
    /\ stack = <<>>
    /\ stdout = <<>>
    /\ status = -1
    /\ visits = [n \in 1..MaxNodes |-> 0]
    /\ overwritten = {}
    /\ sedFailed = {}

InitLine ==
    /\ lineIn \in LinesUpTo(MaxTokens) \cup ScenarioLines
    /\ linePrev = lineIn
    /\ lineOut = lineIn
    /\ nsub = 0
    /\ runs = 0
    /\ FsIdle
    /\ ShIdle

\* one run of sed -i over the line
SedRun ==
    /\ runs < 2
    /\ runs' = runs + 1
    /\ linePrev' = lineOut
    /\ lineOut' = SedSubst(lineOut).text
    /\ nsub' = SedSubst(lineOut).n
    /\ UNCHANGED <<lineIn, fsVars, shVars>>

NextLine == SedRun

SpecLine == InitLine /\ [][NextLine]_vars

----------------------------------------------------------------------------
(* The file system under docs/wiki *)

Nodes == 1..MaxNodes

\* a.md: a markdown name
NameA == <<"a", ".", "m", "d">>
\* cmd: a name that ends in "md" but not in ".md"
NameC == <<"c", "m", "d">>
\* .h.md: a hidden markdown name
NameH == <<".", "h", ".", "m", "d">>

Names == { NameA, NameC, NameH }

\* See [Guide](../other/Getting-Started.md) for details. / plain text /
\* [a](x/a.md) and [b](y/b.md)
LinkDoc == <<GuideLine, PlainLine, TwoLinksLine>>
PlainDoc == <<PlainLine>>

\* byte values of the characters of the names: the order of a sorted glob
CharCode(c) ==
    CASE c = "." -> 46
      [] c = "a" -> 97
      [] c = "c" -> 99
      [] c = "d" -> 100
      [] c = "h" -> 104
      [] c = "m" -> 109

RECURSIVE LessName(_, _)
LessName(a, b) ==
    IF b = <<>> THEN FALSE
    ELSE IF a = <<>> THEN TRUE
    ELSE IF a[1] # b[1] THEN CharCode(a[1]) < CharCode(b[1])
    ELSE LessName(Tail(a), Tail(b))

\* docs/wiki
RootPath == <<"d", "o", "c", "s", "/", "w", "i", "k", "i">>

\* the path bash builds for an entry: "$1"/<name>
RECURSIVE Path(_)
Path(n) == IF n = 0 THEN RootPath ELSE Path(parent[n]) \o <<"/">> \o name[n]

Present(n) == kind[n] # "absent"

Children(d) == {n \in Nodes : Present(n) /\ parent[n] = d}

\* every entry of the tree, at any depth
RECURSIVE Under(_)
Under(d) ==
    Children(d) \cup UNION { Under(c) : c \in {n \in Children(d) : kind[n] = "dir"} }

InitFs ==
    /\ rootExists \in BOOLEAN
    /\ kind \in [Nodes -> {"dir", "file", "other", "absent"}]
    /\ ~rootExists => \A n \in Nodes : kind[n] = "absent"
    /\ \A n \in Nodes : kind[n] = "absent" => \A m \in Nodes : m > n => kind[m] = "absent"
    /\ parent \in [Nodes -> 0..(MaxNodes - 1)]
    /\ \A n \in Nodes :
          /\ parent[n] < n
          /\ kind[n] = "absent" => parent[n] = 0
          /\ parent[n] # 0 => kind[parent[n]] = "dir"
          /\ (n > 1 /\ Present(n)) => parent[n - 1] <= parent[n]
    /\ name \in [Nodes -> Names]
    /\ \A n \in Nodes :
          /\ kind[n] = "absent" => name[n] = NameA
          /\ (n > 1 /\ Present(n) /\ parent[n - 1] = parent[n])
                => LessName(name[n - 1], name[n])
    /\ readable \in [Nodes -> BOOLEAN]
    /\ \A n \in Nodes : kind[n] # "file" => readable[n]
    /\ content \in [Nodes -> {<<>>, LinkDoc, PlainDoc}]
    /\ \A n \in Nodes :
          /\ kind[n] = "file" <=> content[n] # <<>>
          /\ ~readable[n] => content[n] = LinkDoc
    /\ content0 = content

----------------------------------------------------------------------------
(* The script *)

\* the word a pattern that matches nothing is left as: "$1"/*
Unexpanded == 0

\* "*" does not match a name that starts with "."
Hidden(nm) == nm # <<>> /\ nm[1] = "."

RECURSIVE SortNodes(_)
SortNodes(S) ==
    IF S = {} THEN <<>>
    ELSE LET m == CHOOSE x \in S : \A y \in S \ {x} : LessName(name[x], name[y])
         IN  <<m>> \o SortNodes(S \ {m})

\* "$1"/* (line 6): the sorted entries of directory d that "*" matches, or the
\* pattern itself when there is none
Glob(d) ==
    LET matched == {n \in Children(d) : ~Hidden(name[n])}
    IN  IF (d = 0 /\ ~rootExists) \/ matched = {}
        THEN <<Unexpanded>>
        ELSE SortNodes(matched)

\* [[ -d "$file" ]] (line 7)
IsDir(w) == w # Unexpanded /\ kind[w] = "dir"

\* [[ -f "$file" ]] (line 10)
IsFile(w) == w # Unexpanded /\ kind[w] = "file"

\* a mutation of IsMarkdown: the pattern *md, without the dot
IsMarkdownNoDot(w) ==
    LET p == Path(w) IN Len(p) >= 2 /\ p[Len(p) - 1] = "m" /\ p[Len(p)] = "d"

\* [[ "$file" == *.md ]] (line 12)
IsMarkdown(w) == LET p == Path(w) IN Len(p) >= 3 /\ IsMdAt(p, Len(p) - 2)

Transforming(n) == [msg |-> "Transforming links in", file |-> Path(n)]
Success == [msg |-> "Links transformed successfully!"]

InitSh ==
    /\ pc = "start"
    /\ stack = <<>>
    /\ stdout = <<>>
    /\ status = -1
    /\ visits = [n \in Nodes |-> 0]
    /\ overwritten = {}
    /\ sedFailed = {}

LineIdle ==
    /\ lineIn = <<>>
    /\ linePrev = <<>>
    /\ lineOut = <<>>
    /\ nsub = 0
    /\ runs = 0

Init == InitFs /\ InitSh /\ LineIdle

Top == stack[Len(stack)]
Word == Head(Top.words)

\* the for loop moves on to its next word
Advance == [stack EXCEPT ![Len(stack)].words = Tail(@)]

Visit(w) == IF w = Unexpanded THEN visits ELSE [visits EXCEPT ![w] = @ + 1]

\* collect_files docs/wiki (line 20)
CallMain ==
    /\ pc = "start"
    /\ stack' = <<[dir |-> 0, words |-> Glob(0)]>>
    /\ pc' = "loop"
    /\ UNCHANGED <<stdout, status, visits, overwritten, sedFailed, fsVars, lineVars>>

\* the word is a directory: collect_files "$file" (lines 7-9)
LoopDir ==
    /\ pc = "loop" /\ stack # <<>> /\ Top.words # <<>>
    /\ IsDir(Word)
    /\ visits' = Visit(Word)
    /\ stack' = Append(Advance, [dir |-> Word, words |-> Glob(Word)])
    /\ UNCHANGED <<pc, stdout, status, overwritten, sedFailed, fsVars, lineVars>>

\* the word is a regular file named *.md: echo (lines 10-13)
LoopEcho ==
    /\ pc = "loop" /\ stack # <<>> /\ Top.words # <<>>
    /\ ~IsDir(Word) /\ IsFile(Word) /\ IsMarkdown(Word)
    /\ visits' = Visit(Word)
    /\ stdout' = Append(stdout, Transforming(Word))
    /\ pc' = "sed"
    /\ UNCHANGED <<stack, status, overwritten, sedFailed, fsVars, lineVars>>

\* sed -i on the file (line 14); its exit status is not looked at
LoopSed ==
    /\ pc = "sed"
    /\ IF readable[Word]
       THEN /\ content' = [content EXCEPT ![Word] = SedFile(@)]
            /\ overwritten' = overwritten \cup {Word}
            /\ UNCHANGED sedFailed
       ELSE /\ sedFailed' = sedFailed \cup {Word}
            /\ UNCHANGED <<content, overwritten>>
    /\ stack' = Advance
    /\ pc' = "loop"
    /\ UNCHANGED <<stdout, status, visits, rootExists, parent, name, kind,
                   readable, content0, lineVars>>

\* the word is a regular file not named *.md (lines 10-12, 15)
LoopSkipFile ==
    /\ pc = "loop" /\ stack # <<>> /\ Top.words # <<>>
    /\ ~IsDir(Word) /\ IsFile(Word) /\ ~IsMarkdown(Word)
    /\ visits' = Visit(Word)
    /\ stack' = Advance
    /\ UNCHANGED <<pc, stdout, status, overwritten, sedFailed, fsVars, lineVars>>

\* a mutation of LoopSkipWord: a pattern that matches nothing ends the script
\* with an error (shopt -s failglob)
LoopFailGlob ==
    /\ pc = "loop" /\ stack # <<>> /\ Top.words # <<>>
    /\ ~IsDir(Word) /\ ~IsFile(Word)
    /\ pc' = "exit"
    /\ status' = 1
    /\ UNCHANGED <<stack, stdout, visits, overwritten, sedFailed, fsVars, lineVars>>

\* the word is neither a directory nor a regular file (lines 7, 10, 16)
LoopSkipWord ==
    /\ pc = "loop" /\ stack # <<>> /\ Top.words # <<>>
    /\ ~IsDir(Word) /\ ~IsFile(Word)
    /\ visits' = Visit(Word)
    /\ stack' = Advance
    /\ UNCHANGED <<pc, stdout, status, overwritten, sedFailed, fsVars, lineVars>>

\* a mutation of Return: the completion notice is echoed at the end of
\* collect_files instead of after the outermost call
ReturnEcho ==
    /\ pc = "loop" /\ stack # <<>> /\ Top.words = <<>>
    /\ stack' = SubSeq(stack, 1, Len(stack) - 1)
    /\ stdout' = Append(stdout, Success)
    /\ pc' = IF Len(stack) = 1 THEN "exit" ELSE "loop"
    /\ status' = IF Len(stack) = 1 THEN 0 ELSE status
    /\ UNCHANGED <<visits, overwritten, sedFailed, fsVars, lineVars>>

\* the for loop is done: collect_files returns (lines 17-18)
Return ==
    /\ pc = "loop" /\ stack # <<>> /\ Top.words = <<>>
    /\ stack' = SubSeq(stack, 1, Len(stack) - 1)
    /\ pc' = IF Len(stack) = 1 THEN "echoDone" ELSE "loop"
    /\ UNCHANGED <<stdout, status, visits, overwritten, sedFailed, fsVars, lineVars>>

\* echo "Links transformed successfully!" (line 21); the script ends with the
\* status of its last command
EchoDone ==
    /\ pc = "echoDone"
    /\ stdout' = Append(stdout, Success)
    /\ status' = 0
    /\ pc' = "exit"
    /\ UNCHANGED <<stack, visits, overwritten, sedFailed, fsVars, lineVars>>

Next ==
    \/ CallMain
    \/ LoopDir
    \/ LoopEcho
    \/ LoopSed
    \/ LoopSkipFile
    \/ LoopSkipWord
    \/ Return
    \/ EchoDone

Spec == Init /\ [][Next]_vars

----------------------------------------------------------------------------
(* Properties of the substitution (SpecLine) *)

\* C1: a second run of the rewriter leaves the line exactly as the first run
\* left it: a rewritten line is never matched again.
C1_Idempotent == runs = 2 => lineOut = linePrev

\* the first run rewrote the line, and the second run has been made
C1_Witness == runs = 2 /\ linePrev # lineIn

\* Reference rewrite of C2: a link is a "(" followed by a target free of
\* parentheses and blanks that holds a "/" and ends in ".md"; each link is
\* replaced on its own by "(" and the name after the target's last "/".
RefTargetEnd(l, p) ==
    LET stops == {q \in (p + 1)..Len(l) : l[q] \in {"(", ")", " "}}
    IN  IF stops = {} THEN Len(l) ELSE Min(stops) - 1

RefLinkMd(l, p) ==
    {k \in (p + 2)..(RefTargetEnd(l, p) - 2) :
        IsMdAt(l, k) /\ \E j \in (p + 1)..(k - 1) : l[j] = "/"}

RECURSIVE RefRewrite(_)
RefRewrite(l) ==
    IF l = <<>> THEN <<>>
    ELSE IF l[1] = "(" /\ RefLinkMd(l, 1) # {}
    THEN LET k == Max(RefLinkMd(l, 1))
             j == Max({i \in 2..(k - 1) : l[i] = "/"})
         IN  <<"(">> \o SubSeq(l, j + 1, k - 1)
                 \o RefRewrite(SubSeq(l, k + 3, Len(l)))
    ELSE <<l[1]>> \o RefRewrite(Tail(l))

\* C2: every link "(<path>/<name>.md" of a line is replaced by "(<name>", each
\* on its own, and nothing else on the line changes: the rewritten line is
\* the reference per-link rewrite of the line.
C2_EveryLinkRewritten == runs >= 1 => lineOut = RefRewrite(linePrev)

\* See [Guide](Getting-Started for details.
GuideDroppedParen ==
    <<"S", "e", "e", " ", "[", "G", "u", "i", "d", "e", "]", "(", "G", "e", "t",
      "t", "i", "n", "g", "-", "S", "t", "a", "r", "t", "e", "d", " ", "f", "o",
      "r", " ", "d", "e", "t", "a", "i", "l", "s", ".">>

\* See [Guide](Getting-Started) for details.
GuideKeptParen ==
    <<"S", "e", "e", " ", "[", "G", "u", "i", "d", "e", "]", "(", "G", "e", "t",
      "t", "i", "n", "g", "-", "S", "t", "a", "r", "t", "e", "d", ")", " ", "f",
      "o", "r", " ", "d", "e", "t", "a", "i", "l", "s", ".">>

\* C5 as stated: the line "See [Guide](../other/Getting-Started.md) for
\* details." becomes "See [Guide](Getting-Started for details.", the closing
\* parenthesis dropped.
C5_ParenDropped == (lineIn = GuideLine /\ runs >= 1) => lineOut = GuideDroppedParen

\* C5 amended: the line "See [Guide](../other/Getting-Started.md) for
\* details." becomes "See [Guide](Getting-Started) for details.": the match
\* ends at ".md" and the closing parenthesis after it is kept.
C5_ParenKept == (lineIn = GuideLine /\ runs >= 1) => lineOut = GuideKeptParen

\* the scenario line has been through one run, which changed it
C5_Witness == lineIn = GuideLine /\ runs = 1 /\ lineOut # lineIn

\* positions of C10: a "(" followed later by "/" followed later by ".md"
OpenParens(l) ==
    {p \in 1..Len(l) :
        /\ l[p] = "("
        /\ \E q \in (p + 1)..Len(l) :
              l[q] = "/" /\ \E e \in (q + 1)..Len(l) : IsMdAt(l, e)}

LastMd(l) == Max({e \in 1..Len(l) : IsMdAt(l, e)})

LastSlashBefore(l, e) == Max({q \in 1..(e - 1) : l[q] = "/"})

\* C10: a run substitutes at most once on a line.  When the line holds a "("
\* followed later by "/" followed later by ".md", the span from the leftmost
\* such "(" through the last ".md" of the line is replaced by "(" and the
\* text between the last "/" before that ".md" and the ".md"; the text before
\* and after the span is kept.  Any other line is left unchanged.
C10_GreedyExtent ==
    runs >= 1 =>
        LET l == linePrev
        IN  /\ nsub <= 1
            /\ IF OpenParens(l) # {}
               THEN LET p == Min(OpenParens(l))
                        e == LastMd(l)
                        q == LastSlashBefore(l, e)
                    IN  /\ nsub = 1
                        /\ lineOut = SubSeq(l, 1, p - 1) \o <<"(">>
                                        \o SubSeq(l, q + 1, e - 1)
                                        \o SubSeq(l, e + 3, Len(l))
               ELSE nsub = 0 /\ lineOut = l

\* a run rewrote a line that holds two ".md" and text on both sides of the span
C10_Witness ==
    /\ runs = 1
    /\ nsub = 1
    /\ Cardinality({e \in 1..Len(lineIn) : IsMdAt(lineIn, e)}) >= 2
    /\ Min(OpenParens(lineIn)) > 1
    /\ LastMd(lineIn) + 2 < Len(lineIn)

----------------------------------------------------------------------------
(* Properties of a run over a tree (Spec) *)

\* the name ends in ".md"
EndsInDotMd(nm) == Len(nm) >= 3 /\ SubSeq(nm, Len(nm) - 2, Len(nm)) = <<".", "m", "d">>

Emitted(m) == \E i \in 1..Len(stdout) : stdout[i] = m

\* C3: a regular file whose name does not end in ".md" keeps its content,
\* whatever it holds; only files named *.md are ever written.
C3_NonMarkdownUntouched ==
    /\ \A n \in Nodes :
          (kind[n] = "file" /\ ~EndsInDotMd(name[n])) => content[n] = content0[n]
    /\ \A n \in overwritten : kind[n] = "file" /\ EndsInDotMd(name[n])

\* the run is over, it met a file not named *.md that holds links, and it
\* rewrote some markdown file
C3_Witness ==
    /\ pc = "exit"
    /\ \E n \in Nodes :
          /\ kind[n] = "file" /\ ~EndsInDotMd(name[n])
          /\ visits[n] = 1
          /\ content0[n] = LinkDoc
    /\ \E n \in overwritten : content[n] # content0[n]

\* C4: in one run every file under the root, at any depth, is visited by
\* collect_files exactly once.
C4_EveryFileVisitedOnce ==
    pc = "exit" => \A n \in Under(0) : kind[n] = "file" => visits[n] = 1

\* C6: when docs/wiki is missing the run ends in error: no completion notice,
\* no exit status zero.
C6_MissingRootFatal ==
    (pc = "exit" /\ ~rootExists) => (status # 0 /\ ~Emitted(Success))

\* C7: when sed fails on a file the run fails: no completion notice and a
\* non-zero exit status.
C7_SedFailureFatal ==
    (pc = "exit" /\ sedFailed # {}) => (status # 0 /\ ~Emitted(Success))

NoFiles == \A n \in Nodes : kind[n] \in {"dir", "absent"}

\* C9: when the root exists and holds only (possibly nested) empty
\* directories, the run changes nothing, prints the completion notice and
\* nothing else, and exits with status 0.
C9_EmptyTree ==
    (pc = "exit" /\ rootExists /\ NoFiles) =>
        /\ stdout = <<Success>>
        /\ status = 0
        /\ content = content0
        /\ overwritten = {}

\* the run over a tree of nested empty directories is over
C9_Witness ==
    /\ pc = "exit" /\ rootExists /\ NoFiles
    /\ \E n \in Nodes : kind[n] = "dir" /\ parent[n] # 0 /\ visits[n] = 1

====
